---- MODULE Spec2Model ----
(***************************************************************************)
(* Model of the e-commerce backend of src/main.py: the product and order   *)
(* endpoints over a document store.  Endpoints are synchronous handlers    *)
(* run by a pool of worker threads, so requests interleave at their store  *)
(* calls; every store call is one atomic step.                             *)
(*                                                                         *)
(* Money is kept in thousandths of a currency unit (0.01 is 10), so the    *)
(* subtotal tolerance is exact; binary rounding of floats is not modelled. *)
(***************************************************************************)
EXTENDS Integers, Sequences, FiniteSets, TLC

\* ---------------------------------------------------------------- bounds
NReq == 2          \* worker threads handling requests concurrently
MaxItems == 2      \* longest item list of a submitted order
MaxOrders == 2     \* order documents stored at most
MaxProducts == 5   \* product documents stored at most

\* ------------------------------------------------------------- constants
Tol == 10          \* 0.01, in thousandths

Req == 1..NReq

\* ------------------------------------------------------------ input sets
\* one order line worth 0.010: sums 0, 0.010, 0.020, ... against subtotals
\* 0 and 0.021 give deviations 0, 0.001, 0.010 (accepted), 0.011, 0.020, 0.021
ItemSet == {[product |-> "Logo T-shirt", price |-> 5, quantity |-> 2]}
ItemSeqs == UNION {[1..n -> ItemSet] : n \in 0..MaxItems}
SubtotalSet == {0, 21}
OrderSet == [items : ItemSeqs, subtotal : SubtotalSet]

\* the two example orders of the interface description: 2 x 100.0 + 1 x 50.0
\* declared as 250.0, and 2 x 100.0 declared as 150.0
ExampleOrders == {
  [items |-> <<[product |-> "Wireless earphones", price |-> 100000, quantity |-> 2],
               [product |-> "Logo T-shirt", price |-> 50000, quantity |-> 1]>>,
   subtotal |-> 250000],
  [items |-> <<[product |-> "Wireless earphones", price |-> 100000, quantity |-> 2]>>,
   subtotal |-> 150000] }

ProductSet == {[title |-> "Mug", description |-> "plain", price |-> 99000,
                category |-> "home", in_stock |-> FALSE, image |-> ""]}
CategorySet == {"", "home"}

\* the three demo products of seed_products (Thai texts transliterated)
demo == <<
  [title |-> "Logo T-shirt", description |-> "100% cotton, soft",
   price |-> 299000, category |-> "clothing", in_stock |-> TRUE,
   image |-> "https://images.unsplash.com/photo-1520975916090-3105956dac38?w=800&q=80"],
  [title |-> "Stainless tumbler", description |-> "keeps cold for 12 hours",
   price |-> 459000, category |-> "home", in_stock |-> TRUE,
   image |-> "https://images.unsplash.com/photo-1610701592028-1a23e5f912c3?w=800&q=80"],
  [title |-> "Wireless earphones", description |-> "long battery, clear sound",
   price |-> 1290000, category |-> "electronics", in_stock |-> TRUE,
   image |-> "https://images.unsplash.com/photo-1518443895914-6bdd97f5d2f1?w=800&q=80"] >>

VARIABLES
  store,     \* collection name -> sequence of stored documents
  nextOid,   \* number of identifiers the store has assigned
  pc,        \* position of each worker
  order,     \* create_order: the order each worker is handling
  idx,       \* seed_products: index into demo of the next product to insert
  writes,    \* per worker: collections of the insert calls of its request so far
  out,       \* the response sent last, with the request it answers
  accepted   \* history: the orders answered with an identifier

vars == <<store, nextOid, pc, order, idx, writes, out, accepted>>

\* ---------------------------------------------------------- pure helpers
abs_none(x) == x

abs(x) == IF x < 0 THEN 0 - x ELSE x

RECURSIVE sum(_)
sum(s) == IF s = <<>> THEN 0 ELSE Head(s) + sum(Tail(s))

\* what a handler raises: HTTPException(status_code, detail), or any other Exception
HTTPException(status_code, detail) ==
  [type |-> "HTTPException", status_code |-> status_code, detail |-> detail]
Exception(msg) == [type |-> "Exception", msg |-> msg]

\* a store identifier, and str() of an identifier or of an exception
ObjectId(n) == [oid |-> n]
str(x) ==
  IF "oid" \in DOMAIN x THEN "oid" \o ToString(x.oid)
  ELSE IF x.type = "HTTPException" THEN ToString(x.status_code) \o ": " \o x.detail
  ELSE x.msg

\* ------------------------------------------------------- document store
StoreError == Exception("Database not available")

\* insert(collection, doc) -> id: the document as given plus a fresh _id
StoredDoc(data, n) ==
  [k \in DOMAIN data \cup {"_id"} |-> IF k = "_id" THEN ObjectId(n) ELSE data[k]]

create_document_store(st, collection, data, n) ==
  [st EXCEPT ![collection] = Append(@, StoredDoc(data, n + 1))]

create_document_id(n) == str(ObjectId(n + 1))

Matches(doc, filter_dict) ==
  \A k \in DOMAIN filter_dict : k \in DOMAIN doc /\ doc[k] = filter_dict[k]

get_documents(st, collection, filter_dict, limit) ==
  LET found == SelectSeq(st[collection], LAMBDA d : Matches(d, filter_dict))
  IN  IF limit > 0 /\ Len(found) > limit THEN SubSeq(found, 1, limit) ELSE found

\* ------------------------------------------------------------ serialize
serialize_doc_keep(doc) ==
  IF DOMAIN doc = {} THEN doc
  ELSE IF "_id" \in DOMAIN doc
       THEN [k \in DOMAIN doc \cup {"id"} |->
               IF k = "id" THEN str(doc["_id"]) ELSE doc[k]]
       ELSE doc

serialize_doc(doc) ==
  IF DOMAIN doc = {} THEN doc
  ELSE IF "_id" \in DOMAIN doc
       THEN [k \in (DOMAIN doc \ {"_id"}) \cup {"id"} |->
               IF k = "id" THEN str(doc["_id"]) ELSE doc[k]]
       ELSE doc

\* [serialize_doc(d) for d in docs]
serialize_all(docs) == [i \in 1..Len(docs) |-> serialize_doc(docs[i])]

\* ------------------------------------------------------------- requests
NoOrder == [items |-> <<>>, subtotal |-> 0]

\* a response, with the request it answers and the insert calls that request made
Sent(kind, o, w, code, body) ==
  [kind |-> kind, order |-> o, writes |-> w, status |-> code, body |-> body]

\* the response FastAPI makes of a raised HTTPException
Raised(kind, o, w, e) == Sent(kind, o, w, e.status_code, [detail |-> e.detail])

\* except Exception as e: raise HTTPException(status_code=500, detail=str(e))
except_Exception(e) == HTTPException(500, str(e))

Init ==
  /\ store = [c \in {"order", "product"} |-> <<>>]
  /\ nextOid = 0
  /\ pc = [r \in Req |-> "idle"]
  /\ order = [r \in Req |-> NoOrder]
  /\ idx = [r \in Req |-> 0]
  /\ writes = [r \in Req |-> <<>>]
  /\ out = Sent("none", NoOrder, <<>>, 0, <<>>)
  /\ accepted = {}

\* the collection has room for one more document
Room(collection) ==
  Len(store[collection]) < (IF collection = "order" THEN MaxOrders ELSE MaxProducts)

\* --------------------------------------------------------- create_order
calc_subtotal(o) ==
  sum([i \in 1..Len(o.items) |-> o.items[i].price * o.items[i].quantity])

SubtotalMismatch_strict(o) == abs(calc_subtotal(o) - o.subtotal) >= Tol

SubtotalMismatch(o) == abs(calc_subtotal(o) - o.subtotal) > Tol

create_order_except_all(e) == HTTPException(500, str(e))

\* lines 124-127: an HTTPException passes, anything else becomes a 500
create_order_except(e) ==
  IF e.type = "HTTPException" THEN e ELSE HTTPException(500, str(e))

create_order_unvalidated(r, o) ==
  /\ pc[r] = "idle"
  /\ pc' = [pc EXCEPT ![r] = "co_insert"]
  /\ order' = [order EXCEPT ![r] = o]
  /\ UNCHANGED <<store, nextOid, idx, writes, out, accepted>>

\* lines 117-121: the request arrives, the subtotal is validated
create_order(r, o) ==
  /\ pc[r] = "idle"
  /\ IF SubtotalMismatch(o)
     THEN /\ out' = Raised("create_order", o, <<>>,
                           create_order_except(HTTPException(400, "Subtotal mismatch")))
          /\ UNCHANGED <<pc, order>>
     ELSE /\ pc' = [pc EXCEPT ![r] = "co_insert"]
          /\ order' = [order EXCEPT ![r] = o]
          /\ out' = out
  /\ UNCHANGED <<store, nextOid, idx, writes, accepted>>

\* the answer {"id": inserted_id}, recorded in the history
Inserted(r, id) ==
  /\ out' = Sent("create_order", order[r], Append(writes[r], "order"), 200, [id |-> id])
  /\ accepted' = accepted \cup
       {[id |-> id, items |-> order[r].items, subtotal |-> order[r].subtotal]}

create_order_insert_recomputed(r, ok) ==
  /\ pc[r] = "co_insert"
  /\ pc' = [pc EXCEPT ![r] = "idle"]
  /\ order' = [order EXCEPT ![r] = NoOrder]
  /\ IF ok
     THEN /\ Room("order")
          /\ store' = create_document_store(store, "order",
                        [order[r] EXCEPT !.subtotal = calc_subtotal(order[r])], nextOid)
          /\ nextOid' = nextOid + 1
          /\ Inserted(r, create_document_id(nextOid))
     ELSE /\ out' = Raised("create_order", order[r], Append(writes[r], "order"),
                           create_order_except(StoreError))
          /\ UNCHANGED <<store, nextOid, accepted>>
  /\ UNCHANGED <<idx, writes>>

create_order_insert_dedup(r, ok) ==
  /\ pc[r] = "co_insert"
  /\ pc' = [pc EXCEPT ![r] = "idle"]
  /\ order' = [order EXCEPT ![r] = NoOrder]
  /\ IF ok
     THEN LET same == get_documents(store, "order", order[r], 1)
          IN  IF same # <<>>
              THEN /\ Inserted(r, str(same[1]["_id"]))
                   /\ UNCHANGED <<store, nextOid>>
              ELSE /\ Room("order")
                   /\ store' = create_document_store(store, "order", order[r], nextOid)
                   /\ nextOid' = nextOid + 1
                   /\ Inserted(r, create_document_id(nextOid))
     ELSE /\ out' = Raised("create_order", order[r], Append(writes[r], "order"),
                           create_order_except(StoreError))
          /\ UNCHANGED <<store, nextOid, accepted>>
  /\ UNCHANGED <<idx, writes>>

create_order_insert_retry(r, ok) ==
  /\ pc[r] = "co_insert"
  /\ pc' = [pc EXCEPT ![r] = "idle"]
  /\ order' = [order EXCEPT ![r] = NoOrder]
  /\ IF ok
     THEN /\ Room("order")
          /\ store' = create_document_store(store, "order", order[r], nextOid)
          /\ nextOid' = nextOid + 1
          /\ Inserted(r, create_document_id(nextOid))
     ELSE /\ out' = Raised("create_order", order[r], <<"order", "order">>,
                           create_order_except(StoreError))
          /\ UNCHANGED <<store, nextOid, accepted>>
  /\ UNCHANGED <<idx, writes>>

\* lines 122-127: the store call and the response
create_order_insert(r, ok) ==
  /\ pc[r] = "co_insert"
  /\ pc' = [pc EXCEPT ![r] = "idle"]
  /\ order' = [order EXCEPT ![r] = NoOrder]
  /\ IF ok
     THEN /\ Room("order")
          /\ store' = create_document_store(store, "order", order[r], nextOid)
          /\ nextOid' = nextOid + 1
          /\ Inserted(r, create_document_id(nextOid))
     ELSE /\ out' = Raised("create_order", order[r], Append(writes[r], "order"),
                           create_order_except(StoreError))
          /\ UNCHANGED <<store, nextOid, accepted>>
  /\ UNCHANGED <<idx, writes>>

\* ---------------------------------------------------------- list_orders
list_orders_inplace(r, ok) ==
  /\ pc[r] = "idle"
  /\ out' = IF ok
            THEN Sent("list_orders", NoOrder, <<>>, 200,
                      serialize_all(get_documents(store, "order", <<>>, 0)))
            ELSE Raised("list_orders", NoOrder, <<>>, except_Exception(StoreError))
  /\ store' = IF ok THEN [store EXCEPT !["order"] = serialize_all(@)] ELSE store
  /\ UNCHANGED <<nextOid, pc, order, idx, writes, accepted>>

list_orders(r, ok) ==
  /\ pc[r] = "idle"
  /\ out' = IF ok
            THEN Sent("list_orders", NoOrder, <<>>, 200,
                      serialize_all(get_documents(store, "order", <<>>, 0)))
            ELSE Raised("list_orders", NoOrder, <<>>, except_Exception(StoreError))
  /\ UNCHANGED <<store, nextOid, pc, order, idx, writes, accepted>>

\* ------------------------------------------------------- create_product
create_product(r, product, ok) ==
  /\ pc[r] = "idle"
  /\ IF ok
     THEN /\ Room("product")
          /\ store' = create_document_store(store, "product", product, nextOid)
          /\ nextOid' = nextOid + 1
          /\ out' = Sent("create_product", NoOrder, <<"product">>, 200,
                         [id |-> create_document_id(nextOid)])
     ELSE /\ out' = Raised("create_product", NoOrder, <<"product">>,
                           except_Exception(StoreError))
          /\ UNCHANGED <<store, nextOid>>
  /\ UNCHANGED <<pc, order, idx, writes, accepted>>

\* -------------------------------------------------------- list_products
list_products(r, category, ok) ==
  /\ pc[r] = "idle"
  /\ out' = IF ok
            THEN LET filter_dict == IF category # "" THEN [category |-> category] ELSE <<>>
                 IN  Sent("list_products", NoOrder, <<>>, 200,
                          serialize_all(get_documents(store, "product", filter_dict, 0)))
            ELSE Raised("list_products", NoOrder, <<>>, except_Exception(StoreError))
  /\ UNCHANGED <<store, nextOid, pc, order, idx, writes, accepted>>

\* -------------------------------------------------------- seed_products
\* lines 97-100: the request arrives, the existence check is made
seed_products(r, ok) ==
  /\ pc[r] = "idle"
  /\ IF ~ok
     THEN /\ out' = Raised("seed_products", NoOrder, <<>>, except_Exception(StoreError))
          /\ UNCHANGED <<pc, idx>>
     ELSE LET existing == get_documents(store, "product", <<>>, 1)
          IN  IF existing # <<>>
              THEN /\ out' = Sent("seed_products", NoOrder, <<>>, 200,
                                  [status |-> "ok", message |-> "Products already exist"])
                   /\ UNCHANGED <<pc, idx>>
              ELSE /\ pc' = [pc EXCEPT ![r] = "seed_insert"]
                   /\ idx' = [idx EXCEPT ![r] = 1]
                   /\ out' = out
  /\ UNCHANGED <<store, nextOid, order, writes, accepted>>

\* lines 106-110: one turn of the insert loop, and the response after the last
seed_products_insert(r, ok) ==
  /\ pc[r] = "seed_insert"
  /\ IF ok
     THEN /\ Room("product")
          /\ store' = create_document_store(store, "product", demo[idx[r]], nextOid)
          /\ nextOid' = nextOid + 1
          /\ IF idx[r] = Len(demo)
             THEN /\ out' = Sent("seed_products", NoOrder, Append(writes[r], "product"), 200,
                                 [status |-> "ok", message |-> "Seeded demo products"])
                  /\ pc' = [pc EXCEPT ![r] = "idle"]
                  /\ idx' = [idx EXCEPT ![r] = 0]
                  /\ writes' = [writes EXCEPT ![r] = <<>>]
             ELSE /\ idx' = [idx EXCEPT ![r] = @ + 1]
                  /\ writes' = [writes EXCEPT ![r] = Append(@, "product")]
                  /\ UNCHANGED <<pc, out>>
     ELSE /\ out' = Raised("seed_products", NoOrder, Append(writes[r], "product"),
                           except_Exception(StoreError))
          /\ pc' = [pc EXCEPT ![r] = "idle"]
          /\ idx' = [idx EXCEPT ![r] = 0]
          /\ writes' = [writes EXCEPT ![r] = <<>>]
          /\ UNCHANGED <<store, nextOid>>
  /\ UNCHANGED <<order, accepted>>

\* ------------------------------------------------------- specifications
NextOrders ==
  \/ \E r \in Req, o \in OrderSet : create_order(r, o)
  \/ \E r \in Req, ok \in BOOLEAN : create_order_insert(r, ok)
  \/ \E r \in Req, ok \in BOOLEAN : list_orders(r, ok)

NextProducts ==
  \/ \E r \in Req, product \in ProductSet, ok \in BOOLEAN : create_product(r, product, ok)
  \/ \E r \in Req, category \in CategorySet, ok \in BOOLEAN : list_products(r, category, ok)
  \/ \E r \in Req, ok \in BOOLEAN : seed_products(r, ok)
  \/ \E r \in Req, ok \in BOOLEAN : seed_products_insert(r, ok)

NextExamples ==
  \/ \E r \in Req, o \in ExampleOrders : create_order(r, o)
  \/ \E r \in Req, ok \in BOOLEAN : create_order_insert(r, ok)
  \/ \E r \in Req, ok \in BOOLEAN : list_orders(r, ok)

Next == NextExamples \/ NextProducts

\* every endpoint, the orders being the example orders
Spec == Init /\ [][Next]_vars

\* every endpoint, a request being admitted only when no other is in flight
\* (a step's effect on the order collection depends on the store and on the
\* stepping worker alone, not on what the other workers are doing)
OneAtATime == Cardinality({r \in Req : pc[r] # "idle"}) <= 1

SpecSerial == Init /\ [][Next /\ OneAtATime']_vars

\* the order endpoints alone
SpecOrders == Init /\ [][NextOrders]_vars

\* seed_products and product listings alone, the store never failing
NextSeed ==
  \/ \E r \in Req : seed_products(r, TRUE)
  \/ \E r \in Req : seed_products_insert(r, TRUE)
  \/ \E r \in Req, category \in CategorySet : list_products(r, category, TRUE)

SpecSeed == Init /\ [][NextSeed]_vars

\* ------------------------------------------------------------ properties
\* the sum of price * quantity over the items, and an order's deviation from it
RECURSIVE LineTotal(_)
LineTotal(items) ==
  IF Len(items) = 0 THEN 0
  ELSE items[Len(items)].price * items[Len(items)].quantity
         + LineTotal(SubSeq(items, 1, Len(items) - 1))

Deviation(o) ==
  IF o.subtotal >= LineTotal(o.items) THEN o.subtotal - LineTotal(o.items)
  ELSE LineTotal(o.items) - o.subtotal

Within(o) == Deviation(o) <= Tol

orders == store["order"]
products == store["product"]

\* the step sends a response (one that differs from the last one sent)
Answers ==
  ~ /\ out'.kind = out.kind
    /\ out'.status = out.status
    /\ out'.order = out.order
    /\ out'.writes = out.writes
    /\ out'.body = out.body

\* the step sends the response of a create_order request
AnswersOrder == out'.kind = "create_order" /\ Answers

\* the step is the store call of a create_order request
InsertStep(r) == pc[r] = "co_insert" /\ pc'[r] = "idle"

\* C1: a create_order request for an order within 0.01 of its line total (the
\* empty order declared 0 included) whose insert did not fail is answered 200
\* with {"id": <non-empty identifier>}, the identifier of the document the
\* store holds for that order.
C1_ValidOrderAccepted ==
  (out.kind = "create_order" /\ Within(out.order) /\ out.status # 500) =>
    /\ out.status = 200
    /\ DOMAIN out.body = {"id"}
    /\ out.body.id # ""
    /\ \E i \in 1..Len(orders) :
         /\ str(orders[i]["_id"]) = out.body.id
         /\ orders[i].items = out.order.items
         /\ orders[i].subtotal = out.order.subtotal

C1_Witness ==
  /\ out.kind = "create_order"
  /\ out.status = 200
  /\ out.order = [items |-> <<>>, subtotal |-> 0]

\* C2: a create_order request for an order more than 0.01 away from its line
\* total is answered 400 with detail "Subtotal mismatch" (not 500), having
\* called no insert, and the step that answers it leaves the store as it was.
C2_MismatchRejected ==
  [][(AnswersOrder /\ ~Within(out'.order)) =>
       /\ out'.status = 400
       /\ out'.body = [detail |-> "Subtotal mismatch"]
       /\ out'.writes = <<>>
       /\ store' = store
       /\ nextOid' = nextOid]_vars

C2_Witness ==
  /\ out.kind = "create_order"
  /\ out.status = 400
  /\ Deviation(out.order) = Tol + 1
  /\ orders # <<>>

\* C3: a create_order request calls insert at most once, on the order
\* collection, and only once its order has passed validation: an accepted
\* request has made exactly one insert, a rejected one none, and the order
\* collection changes only in the store call of a validated request.
C3_InsertAfterValidation ==
  [][/\ orders' # orders =>
          \E r \in Req : InsertStep(r) /\ Within(order[r]) /\ writes[r] = <<>>
     /\ AnswersOrder =>
          /\ Len(out'.writes) <= 1
          /\ out'.writes # <<>> => (out'.writes = <<"order">> /\ Within(out'.order))
          /\ out'.status = 200 => (out'.writes = <<"order">> /\ Len(orders') = Len(orders) + 1)
          /\ out'.status = 400 => (out'.writes = <<>> /\ orders' = orders)]_vars

C3_Witness ==
  /\ out.kind = "create_order"
  /\ out.status = 200
  /\ out.writes = <<"order">>
  /\ Deviation(out.order) = 1

\* C4: every list_orders result holds, for each order answered with an
\* identifier before it, an entry with that id, the items submitted and the
\* subtotal the client declared.
C4_RoundTrip ==
  (out.kind = "list_orders" /\ out.status = 200) =>
    \A a \in accepted :
      \E i \in 1..Len(out.body) :
        /\ out.body[i].id = a.id
        /\ out.body[i].items = a.items
        /\ out.body[i].subtotal = a.subtotal

C4_Witness ==
  /\ out.kind = "list_orders"
  /\ out.status = 200
  /\ \E a \in accepted : a.subtotal # LineTotal(a.items)
  /\ Cardinality(accepted) = 2

\* C5: every accepted create_order adds one document to the order collection
\* under an identifier no other order document has, also when an order with
\* the same items and subtotal is stored already.
C5_NotIdempotent ==
  [][\A r \in Req :
       (InsertStep(r) /\ out'.status = 200) =>
         /\ Len(orders') = Len(orders) + 1
         /\ str(orders'[Len(orders')]["_id"]) = out'.body.id
         /\ \A i \in 1..Len(orders) : str(orders[i]["_id"]) # out'.body.id]_vars

C5_Witness ==
  \E i, j \in 1..Len(orders) :
    /\ i < j
    /\ orders[i].items = orders[j].items
    /\ orders[i].subtotal = orders[j].subtotal
    /\ orders[i]["_id"] # orders[j]["_id"]

\* C6: when the insert of a validated create_order request fails, the request
\* is answered 500 with the store's error message as detail, after one insert
\* call and no second one, and the store is as it was.
C6_StoreFailure ==
  [][\A r \in Req :
       InsertStep(r) =>
         /\ out'.kind = "create_order"
         /\ out'.status \in {200, 500}
         /\ out'.status = 200 <=> orders' # orders
         /\ out'.status = 500 =>
              /\ out'.body = [detail |-> StoreError.msg]
              /\ out'.writes = <<"order">>
              /\ store' = store
              /\ nextOid' = nextOid]_vars

C6_Witness ==
  /\ out.kind = "create_order"
  /\ out.status = 500
  /\ orders # <<>>

\* C7: every document of the order collection has a subtotal within 0.01 of
\* the sum of price * quantity over its items.
C7_StoredWithinTolerance ==
  \A i \in 1..Len(orders) : Within(orders[i])

C7_Witness ==
  \E i \in 1..Len(orders) : Deviation(orders[i]) = Tol

\* a step of list_orders: the last response is a listing of the orders and no
\* worker has moved (every other action moves a worker or sends another response)
ListOrdersStep == out'.kind = "list_orders" /\ pc' = pc /\ idx' = idx /\ order' = order

\* C8 (stated for SpecSerial; it holds under Spec as well): no step of any
\* endpoint changes or removes an order document: the order collection of the
\* old state is a prefix of the new one, with the same identifiers, items and
\* subtotals, and a list_orders step leaves the whole store unchanged.
C8_OrdersImmutable ==
  [][/\ Len(orders') >= Len(orders)
     /\ \A i \in 1..Len(orders) : orders'[i] = orders[i]
     /\ ListOrdersStep => (store' = store /\ nextOid' = nextOid)]_vars

C8_Witness ==
  /\ orders # <<>>
  /\ out.kind = "seed_products"
  /\ out.status = 200
  /\ out.body.message = "Seeded demo products"

\* C9: a list_orders result has one entry per order document, in store order;
\* each entry has the document's fields except _id, unchanged, and an id field
\* holding the string form of _id; the stored documents keep their _id.
C9_ListSerialized ==
  /\ \A i \in 1..Len(orders) : "_id" \in DOMAIN orders[i] /\ "id" \notin DOMAIN orders[i]
  /\ (out.kind = "list_orders" /\ out.status = 200) =>
       /\ Len(out.body) = Len(orders)
       /\ \A i \in 1..Len(orders) :
            /\ DOMAIN out.body[i] = (DOMAIN orders[i] \ {"_id"}) \cup {"id"}
            /\ out.body[i].id = str(orders[i]["_id"])
            /\ \A k \in DOMAIN orders[i] \ {"_id"} : out.body[i][k] = orders[i][k]

C9_Witness ==
  /\ out.kind = "list_orders"
  /\ out.status = 200
  /\ Len(out.body) = 2

\* C10: seed_products seeds only when no product exists: a request answered
\* "Products already exist" made no insert, no demo product is ever stored
\* twice, and once no seed request is in flight a non-empty product collection
\* is exactly the three demo products.
Stored(p) == {i \in 1..Len(products) : \A k \in DOMAIN p : products[i][k] = p[k]}

C10_SeedOnce ==
  /\ (out.kind = "seed_products" /\ out.status = 200
        /\ out.body.message = "Products already exist") => out.writes = <<>>
  /\ \A n \in 1..Len(demo) : Cardinality(Stored(demo[n])) <= 1
  /\ ((\A r \in Req : pc[r] = "idle") /\ products # <<>>) =>
       /\ Len(products) = Len(demo)
       /\ \A n \in 1..Len(demo) : Cardinality(Stored(demo[n])) = 1
====
